---- MODULE Spec2Model ----
(***************************************************************************)
(* Model of the ESLint rule lib/rules/granular-selectors.js (the module    *)
(* exported last in the file, lines 332-884).                              *)
(*                                                                         *)
(* Source text is modelled as a sequence of lexemes (strings); a blank is  *)
(* the lexeme " " and a line break the lexeme "\n".  String concatenation  *)
(* in the rule is sequence concatenation here, the empty string is <<>>.   *)
(* Syntax tree nodes are records carrying the ESTree fields the rule       *)
(* reads.                                                                  *)
(***************************************************************************)
EXTENDS Integers, Sequences, FiniteSets, TLC

VARIABLES
  file,              \* the syntax tree of the file being linted: a sequence of VariableDeclaration statements
  phase,             \* "start" (before Program), "visit" (traversal), "syntaxError" (the fixed
                     \* text does not parse), "configError" (the options are rejected)
  pos,               \* index, in traversal order, of the declarator visited next
  handler,           \* which listener runs next on that declarator: "access" or "destructuring"
  reportedVariables, \* the dedup registry (set of marked keys, each a lexeme sequence obj . prop)
  reports,           \* diagnostics of the current pass, in report order
  pass,              \* 1 for the original file, 2.. for the file with the fixes applied
  firstReports,      \* the diagnostics of the pass before the current one
  options            \* the options the configuration gives the rule (context.options)

vars == <<file, phase, pos, handler, reportedVariables, reports, pass, firstReports, options>>

----------------------------------------------------------------------------
(* Bounds of the model *)

\* the longest run of statements that follow a selector-bound declaration in an input file
MaxFollowUps == 2

\* passes of the lint-and-fix loop that are explored (the host engine makes up to 10)
MaxPasses == 2

----------------------------------------------------------------------------
(* Generic helpers *)

HasField(r, f) == f \in DOMAIN r

\* the elements of a sequence
Range(s) == { s[i] : i \in 1..Len(s) }

\* concatenation of a sequence of lexeme sequences
Flatten(ss) ==
  LET F[i \in 0..Len(ss)] == IF i = 0 THEN <<>> ELSE F[i - 1] \o ss[i]
  IN F[Len(ss)]

\* the names of a sequence joined by "."
JoinDot(names) ==
  LET F[i \in 0..Len(names)] ==
        IF i = 0 THEN <<>>
        ELSE IF i = 1 THEN <<names[1]>>
        ELSE F[i - 1] \o <<".", names[i]>>
  IN F[Len(names)]

\* the least index >= from at which lexeme t occurs in text, 0 when there is none
IndexFrom(text, t, from) ==
  LET hits == { i \in from..Len(text) : text[i] = t }
  IN IF hits = {} THEN 0 ELSE CHOOSE i \in hits : \A j \in hits : i <= j

----------------------------------------------------------------------------
(* Syntax tree nodes (ESTree), with the fields the rule reads *)

Identifier(name) == [type |-> "Identifier", name |-> name]

\* a parameter with a TypeScript annotation; ann is the annotation's source text
TypedIdentifier(name, ann) ==
  [type |-> "Identifier", name |-> name,
   typeAnnotation |-> [type |-> "TSTypeAnnotation", text |-> ann]]

Literal(raw) == [type |-> "Literal", raw |-> raw]

ArrayExpression(elements) == [type |-> "ArrayExpression", elements |-> elements]

ObjectExpression(properties) == [type |-> "ObjectExpression", properties |-> properties]

MemberExpression(object, prop) ==
  [type |-> "MemberExpression", object |-> object, property |-> Identifier(prop),
   computed |-> FALSE]

\* object[property]
ComputedMemberExpression(object, property) ==
  [type |-> "MemberExpression", object |-> object, property |-> property, computed |-> TRUE]

LogicalExpression(operator, left, right) ==
  [type |-> "LogicalExpression", operator |-> operator, left |-> left, right |-> right]

BinaryExpression(operator, left, right) ==
  [type |-> "BinaryExpression", operator |-> operator, left |-> left, right |-> right]

ConditionalExpression(test, consequent, alternate) ==
  [type |-> "ConditionalExpression", test |-> test, consequent |-> consequent,
   alternate |-> alternate]

ExpressionStatement(expression) == [type |-> "ExpressionStatement", expression |-> expression]

IfStatement(test, consequent) == [type |-> "IfStatement", test |-> test, consequent |-> consequent]

ReturnStatement(argument) == [type |-> "ReturnStatement", argument |-> argument]

BlockStatement(body) == [type |-> "BlockStatement", body |-> body]

\* parenthesized: whether the source text has parentheses around the parameter list
ArrowFunctionExpression(params, parenthesized, body) ==
  [type |-> "ArrowFunctionExpression", params |-> params, body |-> body,
   parenthesized |-> parenthesized]

FunctionExpression(params, body) ==
  [type |-> "FunctionExpression", params |-> params, body |-> body]

CallExpression(calleeName, arguments) ==
  [type |-> "CallExpression", callee |-> Identifier(calleeName), arguments |-> arguments]

\* a call whose callee is object.prop, not a bare identifier
MemberCallExpression(object, prop, arguments) ==
  [type |-> "CallExpression", callee |-> MemberExpression(Identifier(object), prop),
   arguments |-> arguments]

Property(key, value) == [type |-> "Property", key |-> Identifier(key), value |-> value]

RestElement(name) == [type |-> "RestElement", argument |-> Identifier(name)]

AssignmentPattern(left, right) ==
  [type |-> "AssignmentPattern", left |-> left, right |-> right]

ObjectPattern(properties) == [type |-> "ObjectPattern", properties |-> properties]

ArrayPattern(elements) == [type |-> "ArrayPattern", elements |-> elements]

VariableDeclarator(id, init) == [type |-> "VariableDeclarator", id |-> id, init |-> init]

VariableDeclaration(kind, declarations) ==
  [type |-> "VariableDeclaration", kind |-> kind, declarations |-> declarations]

\* the scope of the top level of a file
ProgramScope == "Program"

\* a declaration statement inside the body of a function: scope names the function
InScope(stmt, scope) ==
  [type |-> stmt.type, kind |-> stmt.kind, declarations |-> stmt.declarations, scope |-> scope]

\* the scope a statement declares its variables in
ScopeOf(stmt) == IF HasField(stmt, "scope") THEN stmt.scope ELSE ProgramScope

----------------------------------------------------------------------------
(* sourceCode.getText(node): the source text of a node *)

RECURSIVE GetText(_)
GetText(node) ==
  CASE node.type = "Identifier" ->
         IF HasField(node, "typeAnnotation")
           THEN <<node.name>> \o node.typeAnnotation.text
           ELSE <<node.name>>
    [] node.type = "TSTypeAnnotation" -> node.text
    [] node.type = "Literal" -> <<node.raw>>
    [] node.type = "ArrayExpression" ->
         <<"[">> \o Flatten([i \in 1..Len(node.elements) |-> GetText(node.elements[i])]) \o <<"]">>
    [] node.type = "ObjectExpression" ->
         IF Len(node.properties) = 0 THEN <<"{", "}">>
         ELSE <<"{", " ">>
              \o Flatten([i \in 1..Len(node.properties) |->
                            (IF i > 1 THEN <<",", " ">> ELSE <<>>) \o GetText(node.properties[i])])
              \o <<" ", "}">>
    [] node.type = "Property" ->
         IF GetText(node.key) = GetText(node.value) THEN GetText(node.key)
         ELSE GetText(node.key) \o <<":", " ">> \o GetText(node.value)
    [] node.type = "ObjectPattern" ->
         IF Len(node.properties) = 0 THEN <<"{", "}">>
         ELSE <<"{", " ">>
              \o Flatten([i \in 1..Len(node.properties) |->
                            (IF i > 1 THEN <<",", " ">> ELSE <<>>) \o GetText(node.properties[i])])
              \o <<" ", "}">>
    [] node.type = "AssignmentPattern" ->
         GetText(node.left) \o <<" ", "=", " ">> \o GetText(node.right)
    [] node.type = "RestElement" -> <<"...">> \o GetText(node.argument)
    [] node.type = "ArrayPattern" ->
         <<"[">>
         \o Flatten([i \in 1..Len(node.elements) |->
                       (IF i > 1 THEN <<",", " ">> ELSE <<>>) \o GetText(node.elements[i])])
         \o <<"]">>
    [] node.type = "MemberExpression" ->
         IF node.computed
           THEN GetText(node.object) \o <<"[">> \o GetText(node.property) \o <<"]">>
           ELSE GetText(node.object) \o <<".">> \o GetText(node.property)
    [] node.type = "LogicalExpression" ->
         GetText(node.left) \o <<" ", node.operator, " ">> \o GetText(node.right)
    [] node.type = "BinaryExpression" ->
         GetText(node.left) \o <<" ", node.operator, " ">> \o GetText(node.right)
    [] node.type = "ConditionalExpression" ->
         GetText(node.test) \o <<" ", "?", " ">> \o GetText(node.consequent)
         \o <<" ", ":", " ">> \o GetText(node.alternate)
    [] node.type = "ReturnStatement" ->
         <<"return", " ">> \o GetText(node.argument) \o <<";">>
    [] node.type = "ExpressionStatement" -> GetText(node.expression) \o <<";">>
    [] node.type = "IfStatement" ->
         <<"if", " ", "(">> \o GetText(node.test) \o <<")", " ">> \o GetText(node.consequent)
    [] node.type = "BlockStatement" ->
         <<"{">>
         \o Flatten([i \in 1..Len(node.body) |-> <<" ">> \o GetText(node.body[i])])
         \o <<" ", "}">>
    [] node.type = "ArrowFunctionExpression" ->
         LET ps == Flatten([i \in 1..Len(node.params) |->
                              (IF i > 1 THEN <<",", " ">> ELSE <<>>) \o GetText(node.params[i])])
             body == IF node.body.type = "ObjectExpression"
                       THEN <<"(">> \o GetText(node.body) \o <<")">>
                       ELSE GetText(node.body)
         IN (IF node.parenthesized THEN <<"(">> \o ps \o <<")">> ELSE ps)
            \o <<" ", "=>", " ">> \o body
    [] node.type = "FunctionExpression" ->
         <<"function", "(">>
         \o Flatten([i \in 1..Len(node.params) |->
                       (IF i > 1 THEN <<",", " ">> ELSE <<>>) \o GetText(node.params[i])])
         \o <<")", " ">> \o GetText(node.body)
    [] node.type = "CallExpression" ->
         GetText(node.callee) \o <<"(">>
         \o Flatten([i \in 1..Len(node.arguments) |-> GetText(node.arguments[i])])
         \o <<")">>
    [] OTHER -> <<>>

----------------------------------------------------------------------------
(* The rule's helper functions *)

\* null / undefined where the rule expects a name: falsy, like the empty string
NoName == ""

\* getParamName as it would be with a name assumed where none is found
getParamNameAssumed(funcNode) == "state"

\* getParamName: the name of the first parameter, null when there is none
getParamName(funcNode) ==
  IF ~HasField(funcNode, "params") \/ Len(funcNode.params) = 0
    THEN NoName
    ELSE IF HasField(funcNode.params[1], "name") THEN funcNode.params[1].name ELSE NoName

\* paramText.match(/^[a-zA-Z0-9_]+(\s*:\s*[^)]+)$/): capture group 1, <<>> when no match
MatchTypeInText(paramText) ==
  LET colon == IndexFrom(paramText, ":", 2)
  IN IF /\ colon # 0
        /\ \A i \in 2..(colon - 1) : paramText[i] = " "
        /\ colon < Len(paramText)
        /\ \A i \in (colon + 1)..Len(paramText) : paramText[i] # ")"
       THEN SubSeq(paramText, 2, Len(paramText))
       ELSE <<>>

\* getParamTypeAnnotation: the annotation's source text, "" when there is none
getParamTypeAnnotation(funcNode) ==
  IF ~HasField(funcNode, "params") \/ Len(funcNode.params) = 0
    THEN <<>>
    ELSE LET param == funcNode.params[1]
         IN IF HasField(param, "typeAnnotation")
              THEN GetText(param.typeAnnotation)
              ELSE MatchTypeInText(GetText(param))

\* /^\([^)]*\)\s*=>/.test(funcText)
TestParenthesizedArrow(funcText) ==
  /\ Len(funcText) >= 1
  /\ funcText[1] = "("
  /\ LET close == IndexFrom(funcText, ")", 2)
         rest == IF close = 0 THEN <<>> ELSE SubSeq(funcText, close + 1, Len(funcText))
         arrow == IndexFrom(rest, "=>", 1)
     IN /\ close # 0
        /\ arrow # 0
        /\ \A i \in 1..(arrow - 1) : rest[i] \in {" ", "\n"}

\* hasParenthesesAroundParams
hasParenthesesAroundParams(funcNode) ==
  IF ~HasField(funcNode, "params") \/ Len(funcNode.params) = 0
    THEN FALSE
    ELSE TestParenthesizedArrow(GetText(funcNode))

\* the parameter names of the inputs that contain "$": put into a regular expression unescaped,
\* "$" asserts the end of the input, and a pattern that asks for more text after it matches nothing
DollarNames == {"$state"}

\* text.replace(new RegExp("^" + paramName + "\\."), "")
StripParamPrefix(text, paramName) ==
  IF paramName \notin DollarNames /\ Len(text) >= 2 /\ text[1] = paramName /\ text[2] = "."
    THEN SubSeq(text, 3, Len(text))
    ELSE text

\* body.body.find(stmt => stmt.type === "ReturnStatement"): its index, 0 when none
FindReturn(stmts) ==
  LET hits == { i \in 1..Len(stmts) : stmts[i].type = "ReturnStatement" }
  IN IF hits = {} THEN 0 ELSE CHOOSE i \in hits : \A j \in hits : i <= j

\* the branch shared by block-bodied arrows and function expressions:
\* the base path from the first return statement of a block
BasePathOfBlock(stmts, paramName) ==
  LET r == FindReturn(stmts)
  IN IF r = 0 \/ ~HasField(stmts[r], "argument")
       THEN <<>>
       ELSE LET arg == stmts[r].argument
            IN IF arg.type = "MemberExpression"
                 THEN StripParamPrefix(GetText(arg), paramName)
                 ELSE IF /\ arg.type \in {"LogicalExpression", "BinaryExpression",
                                          "ConditionalExpression"}
                         /\ HasField(arg, "left")
                         /\ arg.left.type = "MemberExpression"
                        THEN StripParamPrefix(GetText(arg.left), paramName)
                        ELSE <<>>

\* extractBasePath: the base path of a selector function, "" when none is found
extractBasePath(selectorFn, paramName) ==
  IF paramName = NoName THEN <<>>
  ELSE LET body == selectorFn.body
       IN IF selectorFn.type = "ArrowFunctionExpression" /\ body.type = "MemberExpression"
            THEN StripParamPrefix(GetText(body), paramName)
          ELSE IF /\ selectorFn.type = "ArrowFunctionExpression"
                  /\ body.type = "LogicalExpression"
                  /\ body.left.type = "MemberExpression"
            THEN StripParamPrefix(GetText(body.left), paramName)
          ELSE IF selectorFn.type = "ArrowFunctionExpression" /\ body.type = "BlockStatement"
            THEN BasePathOfBlock(body.body, paramName)
          ELSE IF selectorFn.type = "FunctionExpression" /\ HasField(body, "body")
            THEN BasePathOfBlock(body.body, paramName)
          ELSE <<>>

\* the callee names of the input files, each split where "use" and "Selector" occur in it
NameParts(name) ==
  CASE name = "useSelector" -> <<"use", "Selector">>
    [] name = "useAppSelector" -> <<"use", "App", "Selector">>
    [] name = "someOtherFunction" -> <<"someOtherFunction">>
    [] name = "reuseSelector" -> <<"re", "use", "Selector">>
    [] name = "useselector" -> <<"use", "selector">>
    [] name = "SelectorOfuse" -> <<"Selector", "Of", "use">>
    [] name = "selectUser" -> <<"select", "User">>
    [] OTHER -> <<name>>

\* TestSelectorName as it would be with a pattern every name matches
TestAnyName(name) == TRUE

\* /use.*Selector.*/.test(name)
TestSelectorName(name) ==
  LET parts == NameParts(name)
  IN \E i \in 1..Len(parts) : \E j \in (i + 1)..Len(parts) :
       parts[i] = "use" /\ parts[j] = "Selector"

\* isSelectorFunction as it would be with the type of the first argument not looked at
isSelectorFunctionAnyArgument(node) ==
  IF ~HasField(node, "callee") \/ node.callee.type # "Identifier" THEN FALSE
  ELSE IF ~TestSelectorName(node.callee.name) THEN FALSE
  ELSE HasField(node, "arguments") /\ Len(node.arguments) > 0

\* isSelectorFunction
isSelectorFunction(node) ==
  IF ~HasField(node, "callee") \/ node.callee.type # "Identifier" THEN FALSE
  ELSE IF ~TestSelectorName(node.callee.name) THEN FALSE
  ELSE IF ~HasField(node, "arguments") \/ Len(node.arguments) = 0 THEN FALSE
  ELSE node.arguments[1].type \in {"ArrowFunctionExpression", "FunctionExpression"}

\* detectCodeStyle as it would be with the declaring keyword not looked at
detectCodeStyleByArrowOnly(node, parent) ==
  /\ HasField(node, "init")
  /\ node.init.type = "CallExpression"
  /\ Len(node.init.arguments) > 0
  /\ node.init.arguments[1].type = "ArrowFunctionExpression"

\* detectCodeStyle(node), parent being node.parent
detectCodeStyle(node, parent) ==
  LET isConst == parent.kind = "const"
      isArrow == /\ HasField(node, "init")
                 /\ node.init.type = "CallExpression"
                 /\ Len(node.init.arguments) > 0
                 /\ node.init.arguments[1].type = "ArrowFunctionExpression"
  IN isConst \/ isArrow

----------------------------------------------------------------------------
(* processObjectPattern: one generated declaration per leaf of a pattern *)

\* prop.key.name || (prop.key.value !== undefined ? prop.key.value : "")
keyNameOf(prop) ==
  IF HasField(prop.key, "name") /\ prop.key.name # NoName THEN prop.key.name
  ELSE IF HasField(prop.key, "value") THEN prop.key.value
  ELSE NoName

\* currentPathOf as it would be with the parent path forgotten
currentPathWithoutParent(parentPath, keyName) == <<keyName>>

\* parentPath ? parentPath + "." + keyName : keyName
currentPathOf(parentPath, keyName) ==
  IF parentPath # <<>> THEN parentPath \o <<".", keyName>> ELSE <<keyName>>

\* aliasOf as it would be with the rename ignored
aliasIgnoringRename(prop, keyName) == keyName

\* the local name declared for a leaf: the identifier, the left side of a default, else the key
aliasOf(prop, keyName) ==
  LET alias ==
        IF prop.value.type = "Identifier" THEN prop.value.name
        ELSE IF prop.value.type = "AssignmentPattern" /\ prop.value.left.type = "Identifier"
          THEN prop.value.left.name
        ELSE NoName
  IN IF alias = NoName THEN keyName ELSE alias

\* defaultValueOf as it would be with the default never read
defaultValueDropped(prop) == <<>>

\* the source text of a leaf's default value, "" when it has none
defaultValueOf(prop) ==
  IF prop.value.type = "AssignmentPattern" /\ prop.value.left.type = "Identifier"
    THEN GetText(prop.value.right)
    ELSE <<>>

\* fullPathOf as it would be with the base path left out
fullPathWithoutBase(basePath, currentPath) == currentPath

\* basePath ? basePath + "." + currentPath : currentPath
fullPathOf(basePath, currentPath) ==
  IF basePath # <<>> THEN basePath \o <<".">> \o currentPath ELSE currentPath

\* the parameter header of a generated arrow function
paramWithTypeOf(paramName, paramTypeAnnotation, hasParentheses) ==
  IF paramTypeAnnotation # <<>>
    THEN IF hasParentheses
           THEN <<"(", paramName>> \o paramTypeAnnotation \o <<")">>
           ELSE <<paramName>> \o paramTypeAnnotation
    ELSE <<paramName>>

\* the declaration generated for a leaf in the arrow form
leafSelectorES6(alias, selectorName, paramWithType, paramName, fullPath, defaultValue) ==
  IF defaultValue # <<>>
    THEN <<"const", " ", alias, " ", "=", " ", selectorName, "(">> \o paramWithType
         \o <<" ", "=>", " ", paramName, ".">> \o fullPath
         \o <<")", " ", "||", " ">> \o defaultValue \o <<";">>
    ELSE <<"const", " ", alias, " ", "=", " ", selectorName, "(">> \o paramWithType
         \o <<" ", "=>", " ", paramName, ".">> \o fullPath \o <<")", ";">>

\* the declaration generated for a leaf in the function-expression form
leafSelectorES5(alias, selectorName, paramName, fullPath, defaultValue) ==
  IF defaultValue # <<>>
    THEN <<"var", " ", alias, " ", "=", " ", selectorName, "(", "function", "(", paramName,
           ")", " ", "{", " ", "return", " ", paramName, ".">> \o fullPath
         \o <<";", " ", "}", ")", " ", "||", " ">> \o defaultValue \o <<";">>
    ELSE <<"var", " ", alias, " ", "=", " ", selectorName, "(", "function", "(", paramName,
           ")", " ", "{", " ", "return", " ", paramName, ".">> \o fullPath
         \o <<";", " ", "}", ")", ";">>

\* the else branch of the property loop: the fix of one leaf
leafFix(prop, selectorInfo, currentPath) ==
  LET keyName == keyNameOf(prop)
      alias == aliasOf(prop, keyName)
      defaultValue == defaultValueOf(prop)
      fullPath == fullPathOf(selectorInfo.basePath, currentPath)
      newSelector ==
        IF selectorInfo.useES6
          THEN leafSelectorES6(alias, selectorInfo.selectorName,
                               paramWithTypeOf(selectorInfo.paramName,
                                               selectorInfo.paramTypeAnnotation,
                                               selectorInfo.hasParentheses),
                               selectorInfo.paramName, fullPath, defaultValue)
          ELSE leafSelectorES5(alias, selectorInfo.selectorName, selectorInfo.paramName,
                               fullPath, defaultValue)
  IN [type |-> "declaration", text |-> newSelector]

\* pushAll as it would be with the new fixes put in front
pushAllInFront(fixes, newFixes) == newFixes \o fixes

\* fixes.push(fix) and fixes.push.apply(fixes, nestedFixes): the new fixes go to the end
pushAll(fixes, newFixes) == fixes \o newFixes

RECURSIVE processObjectPattern(_, _, _)
processObjectPattern(objectPattern, selectorInfo, parentPath) ==
  LET properties == objectPattern.properties
      fixesOf(prop) ==
        IF prop.type = "Property"
          THEN LET currentPath == currentPathOf(parentPath, keyNameOf(prop))
               IN IF prop.value.type = "ObjectPattern"
                    THEN processObjectPattern(prop.value, selectorInfo, currentPath)
                    ELSE <<leafFix(prop, selectorInfo, currentPath)>>
          ELSE <<>>
      \* properties.forEach: the fixes after the first i properties
      fixes[i \in 0..Len(properties)] ==
        IF i = 0 THEN <<>> ELSE pushAll(fixes[i - 1], fixesOf(properties[i]))
  IN fixes[Len(properties)]

----------------------------------------------------------------------------
(* Traversal and scope *)

\* the declarators of a file in traversal order, each as <<statement index, declarator index>>
Declarators(f) ==
  Flatten([s \in 1..Len(f) |-> [d \in 1..Len(f[s].declarations) |-> <<s, d>>]])

NodeAt(f, at) == f[at[1]].declarations[at[2]]

\* node.parent of the declarator at a place
ParentAt(f, at) == f[at[1]]

\* the identifiers a pattern binds
RECURSIVE BoundNames(_)
BoundNames(id) ==
  CASE id.type = "Identifier" -> {id.name}
    [] id.type = "ObjectPattern" ->
         UNION { BoundNames(id.properties[i]) : i \in 1..Len(id.properties) }
    [] id.type = "Property" -> BoundNames(id.value)
    [] id.type = "RestElement" -> BoundNames(id.argument)
    [] id.type = "AssignmentPattern" -> BoundNames(id.left)
    [] id.type = "ArrayPattern" ->
         UNION { BoundNames(id.elements[i]) : i \in 1..Len(id.elements) }
    [] OTHER -> {}

\* currentScope.variables.find(v => v.name === objName): the declarators of a scope that define
\* the name
DefinedIn(f, scope, objName) ==
  { i \in 1..Len(Declarators(f)) :
      /\ ScopeOf(ParentAt(f, Declarators(f)[i])) = scope
      /\ objName \in BoundNames(NodeAt(f, Declarators(f)[i]).id) }

\* the scope walk from the scope of the declarator at a place up to the top level: the place of
\* variable.defs[0].node for a name, <<>> when no scope on the way declares it
FindVariable(f, at, objName) ==
  LET own == DefinedIn(f, ScopeOf(ParentAt(f, at)), objName)
      hits == IF own # {} THEN own ELSE DefinedIn(f, ProgramScope, objName)
  IN IF hits = {} THEN <<>> ELSE Declarators(f)[CHOOSE i \in hits : \A j \in hits : i <= j]

----------------------------------------------------------------------------
(* The two listeners *)

Message == "Avoid destructuring from selectors. Use granular selectors that return specific values."

\* fixer.replaceText(node.parent, text) / fixer.insertTextAfter(node.parent, text)
replaceText(target, text) == [op |-> "replaceText", target |-> target, text |-> text]
insertTextAfter(target, text) == [op |-> "insertTextAfter", target |-> target, text |-> text]

\* the selectorInfo the destructuring listener builds for a declarator bound to a selector call
selectorInfoOf(node, parent) ==
  LET selectorFn == node.init.arguments[1]
      paramName == getParamName(selectorFn)
  IN [selectorName |-> node.init.callee.name,
      paramName |-> paramName,
      paramTypeAnnotation |-> getParamTypeAnnotation(selectorFn),
      hasParentheses |-> hasParenthesesAroundParams(selectorFn),
      basePath |-> extractBasePath(selectorFn, paramName),
      useES6 |-> detectCodeStyle(node, parent)]

\* destructuringFix as it would be with the insertions left out
destructuringFixFirstOnly(target, allFixes) ==
  IF Len(allFixes) > 0 THEN <<replaceText(target, allFixes[1].text)>> ELSE <<>>

\* the fix function of the destructuring listener: the edits for the generated declarations
destructuringFix(target, allFixes) ==
  IF Len(allFixes) > 0
    THEN <<replaceText(target, allFixes[1].text)>>
         \o [i \in 1..(Len(allFixes) - 1) |->
               insertTextAfter(target, <<"\n">> \o allFixes[i + 1].text)]
    ELSE <<>>

\* 'VariableDeclaration > VariableDeclarator[id.type="ObjectPattern"]':
\* the diagnostics (none or one) the listener reports at a place
destructuringReports(f, at) ==
  LET node == NodeAt(f, at)
      parent == ParentAt(f, at)
  IN IF /\ HasField(node, "init")
        /\ node.init.type = "CallExpression"
        /\ isSelectorFunction(node.init)
       THEN IF getParamName(node.init.arguments[1]) = NoName
              THEN <<>>
              ELSE <<[node |-> at, message |-> Message,
                      fix |-> destructuringFix(at[1],
                                processObjectPattern(node.id, selectorInfoOf(node, parent), <<>>))]>>
       ELSE <<>>

\* node.id.name in string concatenation
idNameOf(id) == IF HasField(id, "name") THEN id.name ELSE "undefined"

\* the declaration the access listener generates
accessSelector(node, parent, defNode, defParent, propName) ==
  LET callExpr == defNode.init
      selectorFn == callExpr.arguments[1]
      paramName == getParamName(selectorFn)
      paramTypeAnnotation == getParamTypeAnnotation(selectorFn)
      hasParentheses == hasParenthesesAroundParams(selectorFn)
      selectorName == callExpr.callee.name
      basePath == extractBasePath(selectorFn, paramName)
      useES6 == detectCodeStyle(defNode, defParent) \/ parent.kind = "const"
      fullPath == fullPathOf(basePath, <<propName>>)
      defaultValue == IF node.id.type = "AssignmentPattern"
                        THEN <<" ", "=", " ">> \o GetText(node.id.right)
                        ELSE <<>>
  IN IF useES6
       THEN <<parent.kind, " ", idNameOf(node.id)>> \o defaultValue
            \o <<" ", "=", " ", selectorName, "(">>
            \o paramWithTypeOf(paramName, paramTypeAnnotation, hasParentheses)
            \o <<" ", "=>", " ", paramName, ".">> \o fullPath \o <<")", ";">>
       ELSE <<"var", " ", idNameOf(node.id)>> \o defaultValue
            \o <<" ", "=", " ", selectorName, "(", "function", "(", paramName, ")", " ", "{",
                 " ", "return", " ", paramName, ".">> \o fullPath \o <<";", " ", "}", ")", ";">>

\* objName + "." + propName
keyOf(objName, propName) == <<objName, ".", propName>>

\* notReported as it would be with the registry never consulted
notReportedUnchecked(registry, key) == TRUE

\* whether the registry lets a key through (reportedVariables[key] is not set)
notReported(registry, key) == key \notin registry

\* "VariableDeclaration > VariableDeclarator": what the listener does at a place, as
\* [reports |-> the diagnostics it reports, marks |-> the keys it marks]
accessOutcome(f, at, registry) ==
  LET node == NodeAt(f, at)
      parent == ParentAt(f, at)
      nothing == [reports |-> <<>>, marks |-> {}]
  IN IF node.id.type = "ObjectPattern" THEN nothing
     ELSE IF ~(HasField(node, "init") /\ node.init.type = "MemberExpression") THEN nothing
     ELSE LET objName == IF HasField(node.init.object, "name")
                           THEN node.init.object.name ELSE NoName
              propName == IF HasField(node.init.property, "name")
                            THEN node.init.property.name ELSE NoName
              key == keyOf(objName, propName)
              def == FindVariable(f, at, objName)
          IN IF objName = NoName \/ propName = NoName THEN nothing
             ELSE IF ~notReported(registry, key) THEN nothing
             ELSE IF def = <<>> THEN nothing
             ELSE IF ~HasField(NodeAt(f, def), "init") THEN nothing
             ELSE IF NodeAt(f, def).init.type # "CallExpression" THEN nothing
             ELSE IF ~isSelectorFunction(NodeAt(f, def).init) THEN nothing
             ELSE IF getParamName(NodeAt(f, def).init.arguments[1]) = NoName THEN nothing
             ELSE [reports |->
                     <<[node |-> at, message |-> Message,
                        fix |-> <<replaceText(at[1],
                                    accessSelector(node, parent, NodeAt(f, def),
                                                   ParentAt(f, def), propName))>>]>>,
                   marks |-> {key}]

----------------------------------------------------------------------------
(* The host applying the fixes: the edits of a diagnostic become one replacement *)
(* of the statement, and the replaced text is parsed again for the next pass    *)

SyntaxError == [type |-> "SyntaxError"]

\* lexemes that are literals, not names
LiteralLexemes == {"0", "null", "'Guest'", "''"}

\* whether a text is name ( "." name )*
IsDottedChain(text) ==
  /\ Len(text) % 2 = 1
  /\ \A i \in 1..Len(text) :
       IF i % 2 = 0 THEN text[i] = "."
       ELSE text[i] \notin {".", " ", "(", ")", "[", "]", "{", "}", ";", ":", "=", "=>", "||", "??"}
                      \cup LiteralLexemes

\* the expression a chain of accesses stands for: name, chain.name or chain[name]
RECURSIVE ChainNode(_)
ChainNode(text) ==
  LET n == Len(text)
  IN IF n = 0 THEN SyntaxError
     ELSE IF n = 1 THEN IF IsDottedChain(text) THEN Identifier(text[1]) ELSE SyntaxError
     ELSE IF n >= 3 /\ text[n - 1] = "." /\ IsDottedChain(<<text[n]>>)
       THEN LET object == ChainNode(SubSeq(text, 1, n - 2))
            IN IF object = SyntaxError THEN SyntaxError ELSE MemberExpression(object, text[n])
     ELSE IF n >= 4 /\ text[n] = "]" /\ text[n - 2] = "[" /\ IsDottedChain(<<text[n - 1]>>)
       THEN LET object == ChainNode(SubSeq(text, 1, n - 3))
            IN IF object = SyntaxError THEN SyntaxError
               ELSE ComputedMemberExpression(object, Identifier(text[n - 1]))
     ELSE SyntaxError

\* the least index of a logical operator standing between blanks, 0 when there is none
LogicalAt(text) ==
  LET hits == { i \in 2..(Len(text) - 1) :
                  text[i] \in {"||", "??"} /\ text[i - 1] = " " /\ text[i + 1] = " " }
  IN IF hits = {} THEN 0 ELSE CHOOSE i \in hits : \A j \in hits : i <= j

\* an expression without logical operators
ParseOperand(text) ==
  IF text = <<"[", "]">> THEN ArrayExpression(<<>>)
  ELSE IF text = <<"{", "}">> THEN ObjectExpression(<<>>)
  ELSE IF Len(text) = 1 /\ text[1] \in LiteralLexemes THEN Literal(text[1])
  ELSE ChainNode(text)

\* an expression: operand, or operand || ... (the rest taken as the right side)
RECURSIVE ParseExpression(_)
ParseExpression(text) ==
  LET k == LogicalAt(text)
  IN IF k = 0 THEN ParseOperand(text)
     ELSE LET left == ParseOperand(SubSeq(text, 1, k - 2))
              right == ParseExpression(SubSeq(text, k + 2, Len(text)))
          IN IF left = SyntaxError \/ right = SyntaxError THEN SyntaxError
             ELSE LogicalExpression(text[k], left, right)

\* the parameter list between the parentheses of a function: one name, with or without annotation
ParseParams(text) ==
  IF text = <<>> THEN <<>>
  ELSE IF Len(text) = 1 THEN <<Identifier(text[1])>>
  ELSE <<TypedIdentifier(text[1], SubSeq(text, 2, Len(text)))>>

\* function(p) { return e; }
ParseFunctionExpression(text) ==
  LET close == IndexFrom(text, ")", 3)
      semi == IndexFrom(text, ";", 1)
  IN IF /\ Len(text) >= 12
        /\ text[2] = "("
        /\ close # 0
        /\ semi = Len(text) - 2
        /\ SubSeq(text, close + 1, close + 6) = <<" ", "{", " ", "return", " ", text[close + 6]>>
        /\ SubSeq(text, semi, Len(text)) = <<";", " ", "}">>
        /\ ParseExpression(SubSeq(text, close + 6, semi - 1)) # SyntaxError
       THEN FunctionExpression(
              ParseParams(SubSeq(text, 3, close - 1)),
              BlockStatement(<<ReturnStatement(
                                 ParseExpression(SubSeq(text, close + 6, semi - 1)))>>))
       ELSE SyntaxError

\* p => e and (p) => e and (p: T) => e; an annotation outside parentheses does not parse
ParseArrowFunction(text) ==
  LET arrow == IndexFrom(text, "=>", 1)
      header == SubSeq(text, 1, arrow - 2)
      body == ParseExpression(SubSeq(text, arrow + 2, Len(text)))
      parenthesized == Len(header) >= 2 /\ header[1] = "(" /\ header[Len(header)] = ")"
  IN IF arrow < 3 \/ text[arrow - 1] # " " \/ arrow + 2 > Len(text) \/ text[arrow + 1] # " "
       THEN SyntaxError
     ELSE IF body = SyntaxError THEN SyntaxError
     ELSE IF parenthesized
       THEN ArrowFunctionExpression(ParseParams(SubSeq(header, 2, Len(header) - 1)), TRUE, body)
     ELSE IF Len(header) = 1 THEN ArrowFunctionExpression(<<Identifier(header[1])>>, FALSE, body)
     ELSE SyntaxError

\* callee(function) with an optional || default after the call
ParseInit(text) ==
  LET closes == { i \in 3..Len(text) :
                    /\ text[i] = ")"
                    /\ \/ i = Len(text)
                       \/ /\ i + 4 <= Len(text)
                          /\ SubSeq(text, i + 1, i + 3) = <<" ", "||", " ">> }
      close == IF closes = {} THEN 0 ELSE CHOOSE i \in closes : \A j \in closes : i <= j
      argText == SubSeq(text, 3, close - 1)
      arg == IF argText # <<>> /\ argText[1] = "function"
               THEN ParseFunctionExpression(argText)
               ELSE ParseArrowFunction(argText)
      call == CallExpression(text[1], <<arg>>)
      right == ParseExpression(SubSeq(text, close + 4, Len(text)))
  IN IF Len(text) < 4 \/ text[2] # "(" \/ close = 0 THEN SyntaxError
     ELSE IF arg = SyntaxError THEN SyntaxError
     ELSE IF close = Len(text) THEN call
     ELSE IF right = SyntaxError THEN SyntaxError
     ELSE LogicalExpression("||", call, right)

\* keyword name = init;
ParseDeclaration(text) ==
  IF /\ Len(text) >= 8
     /\ text[1] \in {"var", "let", "const"}
     /\ <<text[2], text[4], text[5], text[6]>> = <<" ", " ", "=", " ">>
     /\ text[Len(text)] = ";"
     /\ IsDottedChain(<<text[3]>>)
     /\ ParseInit(SubSeq(text, 7, Len(text) - 1)) # SyntaxError
    THEN VariableDeclaration(text[1],
           <<VariableDeclarator(Identifier(text[3]), ParseInit(SubSeq(text, 7, Len(text) - 1)))>>)
    ELSE SyntaxError

\* the statements of a text of declarations, one per line
RECURSIVE ParseStatements(_)
ParseStatements(text) ==
  LET nl == IndexFrom(text, "\n", 1)
  IN IF nl = 0 THEN <<ParseDeclaration(text)>>
     ELSE <<ParseDeclaration(SubSeq(text, 1, nl - 1))>>
          \o ParseStatements(SubSeq(text, nl + 1, Len(text)))

\* the text a diagnostic's edits put in place of the statement
mergedText(fix) == Flatten([i \in 1..Len(fix) |-> fix[i].text])

\* the diagnostic whose fix is applied to statement s: the first one that has edits for it
\* (a later one overlaps it and is left for another pass), 0 when there is none
FixFor(rs, s) ==
  LET hits == { i \in 1..Len(rs) : Len(rs[i].fix) > 0 /\ rs[i].fix[1].target = s }
  IN IF hits = {} THEN 0 ELSE CHOOSE i \in hits : \A j \in hits : i <= j

\* the statements put in place of a statement: they are in the function body it was in
Replacing(stmt, parsed) ==
  [i \in 1..Len(parsed) |->
     IF HasField(stmt, "scope") /\ parsed[i] # SyntaxError
       THEN InScope(parsed[i], stmt.scope) ELSE parsed[i]]

\* the file after the fixes of a pass are applied
FixedFile(f, rs) ==
  Flatten([s \in 1..Len(f) |->
             IF FixFor(rs, s) = 0 THEN <<f[s]>>
             ELSE Replacing(f[s], ParseStatements(mergedText(rs[FixFor(rs, s)].fix)))])

----------------------------------------------------------------------------
(* The input files *)

Kinds == {"var", "let", "const"}

CalleeNames == {"useSelector", "useAppSelector", "someOtherFunction"}

StateParam == Identifier("state")

\* a parameter named with "$"
DollarParam == Identifier("$state")

TypedStateParam == TypedIdentifier("state", <<":", " ", "RootState">>)

\* what the selector functions of the input files return
ReturnedExpressions ==
  { StateParam,
    MemberExpression(StateParam, "data"),
    LogicalExpression("||", MemberExpression(StateParam, "data"), ObjectExpression(<<>>)),
    LogicalExpression("??", MemberExpression(StateParam, "user"), Literal("null")) }

\* the selector functions returning e: arrows without and with parentheses and annotation,
\* function expressions, and an arrow without parameters
SelectorFunctions(e) ==
  { ArrowFunctionExpression(<<StateParam>>, FALSE, e),
    ArrowFunctionExpression(<<StateParam>>, TRUE, e),
    ArrowFunctionExpression(<<TypedStateParam>>, TRUE, e),
    FunctionExpression(<<StateParam>>, BlockStatement(<<ReturnStatement(e)>>)),
    FunctionExpression(<<TypedStateParam>>, BlockStatement(<<ReturnStatement(e)>>)),
    ArrowFunctionExpression(<<>>, TRUE, e) }

\* state.a.b
StateField(a, b) == MemberExpression(MemberExpression(StateParam, a), b)

\* an object literal with explicit property mappings
ObjectLiteralBody ==
  ObjectExpression(<<Property("foo", StateField("profile", "foo")),
                     Property("bar", StateField("user", "bar"))>>)

LogStatement == ExpressionStatement(CallExpression("log", <<StateParam>>))

\* blocks that are not a single return statement
BlockShapes ==
  { <<LogStatement, ReturnStatement(MemberExpression(StateParam, "data"))>>,
    <<IfStatement(MemberExpression(StateParam, "ready"),
                  ReturnStatement(MemberExpression(StateParam, "user"))),
      ReturnStatement(MemberExpression(StateParam, "data"))>>,
    <<ReturnStatement(MemberExpression(StateParam, "data")),
      ReturnStatement(MemberExpression(StateParam, "user"))>>,
    <<LogStatement>> }

\* returned expressions that are no field access, no || or ?? and no object literal
OtherExpressions ==
  { BinaryExpression("+", MemberExpression(StateParam, "count"), Literal("1")),
    ConditionalExpression(MemberExpression(StateParam, "ready"),
                          MemberExpression(StateParam, "data"),
                          MemberExpression(StateParam, "user")),
    CallExpression("getData", <<StateParam>>),
    Literal("null") }

\* member expressions that are no dotted chain rooted at the parameter: other.foo and state[k]
UnrootedExpressions ==
  { MemberExpression(Identifier("other"), "foo"),
    ComputedMemberExpression(StateParam, Identifier("k")) }

\* selector functions beyond SelectorFunctions: object literal bodies, other blocks, other
\* returned expressions in the three body forms, and a function of two parameters
ExtraSelectorFunctions ==
  { ArrowFunctionExpression(<<StateParam>>, p, ObjectLiteralBody) : p \in BOOLEAN }
  \cup { ArrowFunctionExpression(<<StateParam>>, FALSE, BlockStatement(b)) : b \in BlockShapes }
  \cup { FunctionExpression(<<StateParam>>, BlockStatement(b)) : b \in BlockShapes }
  \cup { ArrowFunctionExpression(<<StateParam>>, FALSE, e) : e \in OtherExpressions }
  \cup { ArrowFunctionExpression(<<StateParam>>, FALSE, BlockStatement(<<ReturnStatement(e)>>)) :
           e \in OtherExpressions }
  \cup { FunctionExpression(<<StateParam>>, BlockStatement(<<ReturnStatement(e)>>)) :
           e \in OtherExpressions }
  \cup { ArrowFunctionExpression(<<StateParam, Identifier("props")>>, TRUE,
                                 MemberExpression(StateParam, "data")) }
  \cup { ArrowFunctionExpression(<<StateParam>>, FALSE, e) : e \in UnrootedExpressions }
  \cup { ArrowFunctionExpression(<<ObjectPattern(<<Property("data", Identifier("data"))>>)>>, TRUE,
                                 Identifier("data")) }
  \cup { FunctionExpression(<<StateParam>>, BlockStatement(<<ReturnStatement(e)>>)) :
           e \in UnrootedExpressions }
  \cup { ArrowFunctionExpression(<<DollarParam>>, FALSE, MemberExpression(DollarParam, "data")),
         FunctionExpression(<<DollarParam>>,
           BlockStatement(<<ReturnStatement(
             MemberExpression(MemberExpression(DollarParam, "user"), "profile"))>>)) }

Calls ==
  { CallExpression(c, <<fn>>) :
      c \in CalleeNames, fn \in UNION { SelectorFunctions(e) : e \in ReturnedExpressions } }
  \cup { CallExpression("useSelector", <<fn>>) : fn \in ExtraSelectorFunctions }

DataSelector == ArrowFunctionExpression(<<StateParam>>, FALSE, MemberExpression(StateParam, "data"))

\* calls of other shapes: other callee names, a member callee, no argument, an argument that
\* is not a function
OddCalls ==
  { CallExpression(c, <<DataSelector>>) :
      c \in {"reuseSelector", "useselector", "SelectorOfuse", "selectUser"} }
  \cup { MemberCallExpression("hooks", "useSelector", <<DataSelector>>),
         CallExpression("useSelector", <<>>),
         CallExpression("useSelector", <<Identifier("selectData")>>) }

Shorthand(name) == Property(name, Identifier(name))

Defaulted(key, name, right) == Property(key, AssignmentPattern(Identifier(name), right))

\* the destructuring patterns of the input files
Patterns ==
  { ObjectPattern(<<>>),
    ObjectPattern(<<Shorthand("foo"), Shorthand("bar")>>),
    ObjectPattern(<<Property("foo", Identifier("renamedFoo")), Shorthand("bar")>>),
    ObjectPattern(<<Defaulted("totalCount", "totalCount", Literal("0"))>>),
    ObjectPattern(<<Defaulted("jobs", "jobsList", ArrayExpression(<<>>)),
                    Defaulted("totalCount", "totalCount", Literal("0"))>>),
    ObjectPattern(<<Property("user", ObjectPattern(<<Shorthand("name"), Shorthand("email")>>)),
                    Shorthand("settings")>>),
    ObjectPattern(<<Property("a", ObjectPattern(<<Property("b", ObjectPattern(
                      <<Defaulted("c", "deep", Literal("'Guest'"))>>))>>))>>),
    ObjectPattern(<<RestElement("rest")>>),
    ObjectPattern(<<Shorthand("foo"), RestElement("rest")>>),
    ObjectPattern(<<Property("foo", ArrayPattern(<<Identifier("x"), Identifier("y")>>))>>),
    ObjectPattern(<<Property("foo", AssignmentPattern(ObjectPattern(<<Shorthand("bar")>>),
                                                      ObjectExpression(<<>>)))>>) }

\* files of one statement that destructures a call
DestructuringFiles ==
  { <<VariableDeclaration(k, <<VariableDeclarator(p, c)>>)>> :
      k \in Kinds, p \in Patterns, c \in Calls }
  \cup { <<VariableDeclaration("const",
             <<VariableDeclarator(ObjectPattern(<<Shorthand("foo"), Shorthand("bar")>>), c)>>)>> :
           c \in OddCalls }

\* the statement that binds obj, to a call or to another object
ObjectStatements ==
  { VariableDeclaration(k, <<VariableDeclarator(Identifier("obj"), init)>>) :
      k \in {"var", "const"},
      init \in { c \in Calls : c.callee.name # "useAppSelector" } \cup {Identifier("someObject")} }

\* the statement that destructures obj out of a selector call
DestructuredObjectStatements ==
  { VariableDeclaration(k, <<VariableDeclarator(ObjectPattern(<<Shorthand("obj")>>),
                                                CallExpression("useSelector", <<fn>>))>>) :
      k \in {"var", "const"},
      fn \in SelectorFunctions(StateParam) \cup SelectorFunctions(MemberExpression(StateParam, "data")) }

\* the names the statements after it declare, by position
LocalNames == <<"a", "b", "c", "d">>

\* a property access on obj: [kind, prop], declared at position i as  kind LocalNames[i] = obj.prop;
Accesses == [kind : {"var", "const"}, prop : {"foo", "bar"}]

AccessStatement(acc, i) ==
  VariableDeclaration(acc.kind,
    <<VariableDeclarator(Identifier(LocalNames[i]),
                         MemberExpression(Identifier("obj"), acc.prop))>>)

\* files that bind obj and then read properties of it
AccessFiles ==
  { <<o>> \o [i \in 1..Len(accs) |-> AccessStatement(accs[i], i)] :
      o \in ObjectStatements \cup DestructuredObjectStatements,
      accs \in UNION { [1..m -> Accesses] : m \in 1..MaxFollowUps } }

\* files that bind obj and then destructure it
VariableDestructuringFiles ==
  { <<o, VariableDeclaration(o.kind,
           <<VariableDeclarator(ObjectPattern(<<Shorthand("foo"), Shorthand("bar")>>),
                                Identifier("obj"))>>)>> :
      o \in ObjectStatements }

\* a declarator that shares its statement with another one
OtherDeclarator == VariableDeclarator(Identifier("other"), Literal("0"))

\* files whose flagged declarator has a sibling:  k { foo, bar } = useSelector(fn), other = 0;
\* and  k a = obj.prop, other = 0;
SiblingFiles ==
  { <<VariableDeclaration(k,
        <<VariableDeclarator(ObjectPattern(<<Shorthand("foo"), Shorthand("bar")>>),
                             CallExpression("useSelector", <<fn>>)),
          OtherDeclarator>>)>> :
      k \in Kinds, fn \in SelectorFunctions(MemberExpression(StateParam, "data")) }
  \cup { <<o, VariableDeclaration(acc.kind,
                <<AccessStatement(acc, 1).declarations[1], OtherDeclarator>>)>> :
            o \in ObjectStatements, acc \in Accesses }

\* the statements binding obj in the files with function bodies
ScopedObjectStatements ==
  { VariableDeclaration("const", <<VariableDeclarator(Identifier("obj"), init)>>) :
      init \in { CallExpression("useSelector", <<DataSelector>>),
                 CallExpression("useSelector",
                   <<FunctionExpression(<<StateParam>>, BlockStatement(<<ReturnStatement(StateParam)>>))>>),
                 Identifier("someObject") } }

\* files in which two functions each bind a variable obj of their own and read a property of it,
\* and files in which a function reads a property of a variable of the top level
ScopedFiles ==
  { <<InScope(o1, "first"), InScope(AccessStatement(a1, 1), "first"),
      InScope(o2, "second"), InScope(AccessStatement(a2, 2), "second")>> :
      o1 \in ScopedObjectStatements, o2 \in ScopedObjectStatements,
      a1 \in Accesses, a2 \in Accesses }
  \cup { <<o, InScope(AccessStatement(a, 1), "first")>> :
            o \in ScopedObjectStatements, a \in Accesses }

\* declarators reading obj in other ways, declared at position i:
\* kind LocalNames[i] = obj[foo];  and  kind [first] = obj.items;
OtherAccessStatements(i) ==
  { VariableDeclaration(k,
      <<VariableDeclarator(Identifier(LocalNames[i]),
                           ComputedMemberExpression(Identifier("obj"), Identifier("foo")))>>) :
      k \in {"var", "const"} }
  \cup { VariableDeclaration(k,
           <<VariableDeclarator(ArrayPattern(<<Identifier("first")>>),
                                MemberExpression(Identifier("obj"), "items"))>>) :
           k \in {"var", "const"} }
  \cup { AccessStatement([kind |-> "var", prop |-> "foo"], i) }

\* files that bind obj and then read it with a computed key or into an array pattern
OtherAccessFiles ==
  { <<o>> \o accs :
      o \in ScopedObjectStatements,
      accs \in UNION { { a \in [1..m -> UNION { OtherAccessStatements(i) : i \in 1..m }] :
                           \A i \in 1..m : a[i] \in OtherAccessStatements(i) } :
                       m \in 1..MaxFollowUps } }

Files ==
  DestructuringFiles \cup AccessFiles \cup VariableDestructuringFiles \cup SiblingFiles
    \cup ScopedFiles \cup OtherAccessFiles

\* the options a configuration may give the rule: none, or one object of pattern lists
Configurations ==
  { <<>>,
    <<[include |-> {"select.*"}, exclude |-> {}]>>,
    <<[include |-> {"use.*Selector.*"}, exclude |-> {"useApp.*"}]>> }

\* meta.schema: the options the schema [] admits (an array of at most 0 items)
SchemaAdmits(opts) == Len(opts) <= 0

----------------------------------------------------------------------------
(* The state machine: the host engine driving the rule over a file *)

TraversalDone == phase = "visit" /\ pos > Len(Declarators(file))

Init ==
  /\ file \in Files
  /\ phase = "start"
  /\ pos = 1
  /\ handler = "access"
  /\ reportedVariables = {}
  /\ reports = <<>>
  /\ pass = 1
  /\ firstReports = <<>>
  /\ options \in Configurations

\* the host validates the options against meta.schema before it creates the rule
RejectOptions ==
  /\ phase = "start"
  /\ ~SchemaAdmits(options)
  /\ phase' = "configError"
  /\ UNCHANGED <<file, pos, handler, reportedVariables, reports, pass, firstReports, options>>

\* Program as it would be with the registry kept
ProgramKeepingRegistry ==
  /\ phase = "start"
  /\ SchemaAdmits(options)
  /\ phase' = "visit"
  /\ UNCHANGED <<file, pos, handler, reportedVariables, reports, pass, firstReports, options>>

\* Program: reset the registry at the start of a file
Program ==
  /\ phase = "start"
  /\ SchemaAdmits(options)
  /\ phase' = "visit"
  /\ reportedVariables' = {}
  /\ UNCHANGED <<file, pos, handler, reports, pass, firstReports, options>>

\* "VariableDeclaration > VariableDeclarator" on the declarator at pos
AccessChainHandler ==
  /\ phase = "visit"
  /\ pos <= Len(Declarators(file))
  /\ handler = "access"
  /\ LET at == Declarators(file)[pos]
         out == accessOutcome(file, at, reportedVariables)
     IN /\ reports' = reports \o out.reports
        /\ reportedVariables' = reportedVariables \cup out.marks
        /\ IF NodeAt(file, at).id.type = "ObjectPattern"
             THEN handler' = "destructuring" /\ pos' = pos
             ELSE handler' = "access" /\ pos' = pos + 1
  /\ UNCHANGED <<file, phase, pass, firstReports, options>>

\* 'VariableDeclaration > VariableDeclarator[id.type="ObjectPattern"]' on the declarator at pos
DestructuringHandler ==
  /\ phase = "visit"
  /\ pos <= Len(Declarators(file))
  /\ handler = "destructuring"
  /\ reports' = reports \o destructuringReports(file, Declarators(file)[pos])
  /\ handler' = "access"
  /\ pos' = pos + 1
  /\ UNCHANGED <<file, phase, reportedVariables, pass, firstReports, options>>

\* the host applies the fixes of the pass and lints the result again
ApplyFixes ==
  /\ TraversalDone
  /\ reports # <<>>
  /\ pass < MaxPasses
  /\ LET fixed == FixedFile(file, reports)
     IN IF SyntaxError \in Range(fixed)
          THEN phase' = "syntaxError" /\ file' = file
          ELSE phase' = "start" /\ file' = fixed
  /\ pass' = pass + 1
  /\ firstReports' = reports
  /\ reports' = <<>>
  /\ pos' = 1
  /\ handler' = "access"
  /\ UNCHANGED <<reportedVariables, options>>

Next == RejectOptions \/ Program \/ AccessChainHandler \/ DestructuringHandler \/ ApplyFixes

Spec == Init /\ [][Next]_vars

----------------------------------------------------------------------------
(* Reading the diagnostics: what the properties below talk about *)

\* the generated declarations of a diagnostic, one text each (the line break of an insertion dropped)
GeneratedTexts(r) ==
  [i \in 1..Len(r.fix) |->
     IF r.fix[i].op = "insertTextAfter" THEN Tail(r.fix[i].text) ELSE r.fix[i].text]

\* whether a generated declaration is written with an arrow / with a function expression
IsArrowForm(t) == "=>" \in Range(t) /\ "function" \notin Range(t)
IsLegacyForm(t) == t[1] = "var" /\ "function" \in Range(t) /\ "=>" \notin Range(t)

\* the expression a generated selector returns
ReturnedText(t) ==
  IF "return" \in Range(t)
    THEN SubSeq(t, IndexFrom(t, "return", 1) + 2, IndexFrom(t, ";", IndexFrom(t, "return", 1)) - 1)
    ELSE SubSeq(t, IndexFrom(t, "=>", 1) + 2, IndexFrom(t, ")", IndexFrom(t, "=>", 1)) - 1)

\* the text from the parenthesis that closes the selector call to the end of the declaration
AfterCall(t) ==
  IF "return" \in Range(t)
    THEN SubSeq(t, IndexFrom(t, ";", IndexFrom(t, "return", 1)) + 3, Len(t))
    ELSE SubSeq(t, IndexFrom(t, ")", IndexFrom(t, "=>", 1)), Len(t))

\* the parameter header of a generated arrow function
HeaderText(t) == SubSeq(t, 9, IndexFrom(t, "=>", 1) - 2)

\* whether text d occurs in text t
Occurs(d, t) == \E i \in 1..(Len(t) - Len(d) + 1) : SubSeq(t, i, i + Len(d) - 1) = d

\* the leaves of a pattern in source order, depth first: the keys from the root and the property
RECURSIVE Leaves(_, _)
Leaves(pattern, keys) ==
  Flatten([i \in 1..Len(pattern.properties) |->
             LET prop == pattern.properties[i]
             IN IF prop.type # "Property" THEN <<>>
                ELSE IF prop.value.type = "ObjectPattern"
                  THEN Leaves(prop.value, Append(keys, prop.key.name))
                  ELSE <<[keys |-> Append(keys, prop.key.name), prop |-> prop]>>])

IsDestructuring(r) == NodeAt(file, r.node).id.type = "ObjectPattern"

\* the selector call a flagged declarator is bound to, directly or through its variable
SelectorCallOf(r) ==
  IF IsDestructuring(r) THEN NodeAt(file, r.node).init
  ELSE NodeAt(file, FindVariable(file, r.node, NodeAt(file, r.node).init.object.name)).init

\* the statement that holds that call
SelectorStatementOf(r) ==
  IF IsDestructuring(r) THEN ParentAt(file, r.node)
  ELSE ParentAt(file, FindVariable(file, r.node, NodeAt(file, r.node).init.object.name))

\* the expression a selector function returns
ReturnedExpression(fn) ==
  IF fn.body.type = "BlockStatement"
    THEN IF FindReturn(fn.body.body) = 0 THEN [type |-> "None"]
         ELSE fn.body.body[FindReturn(fn.body.body)].argument
    ELSE fn.body

\* the path lexemes of a generated selector for a field path under a base path
PathText(basePath, path) ==
  IF basePath # <<>> THEN basePath \o <<".">> \o JoinDot(path) ELSE JoinDot(path)

----------------------------------------------------------------------------
(* Properties *)

AliasPreserved ==
  \A k \in 1..Len(reports) :
    IsDestructuring(reports[k]) =>
      LET leaves == Leaves(NodeAt(file, reports[k].node).id, <<>>)
          texts == GeneratedTexts(reports[k])
      IN \A i \in 1..Len(leaves) :
           LET value == leaves[i].prop.value
               local == IF value.type = "AssignmentPattern" THEN value.left ELSE value
               returned == ReturnedText(texts[i])
           IN local.type = "Identifier" =>
                /\ texts[i][3] = local.name
                /\ returned[Len(returned)] = leaves[i].prop.key.name

\* a renamed leaf with a default, three keys deep: declared as deep, read from ...c
AliasWitness ==
  \E k \in 1..Len(reports) :
    /\ IsDestructuring(reports[k])
    /\ \E i \in 1..Len(reports[k].fix) :
         LET leaf == Leaves(NodeAt(file, reports[k].node).id, <<>>)[i]
             t == GeneratedTexts(reports[k])[i]
         IN /\ leaf.prop.value.type = "AssignmentPattern"
            /\ leaf.prop.value.left.name # leaf.prop.key.name
            /\ Len(leaf.keys) = 3
            /\ t[3] = "deep"
            /\ ReturnedText(t)[Len(ReturnedText(t))] = "c"

\* C4 (default value): a leaf with a default = D is declared as
\* <keyword> <localName> = <selectorCall> || D; with D's source text, and D is not inside the
\* selector function; a leaf without a default has nothing between the call and the ";".
DefaultRoundTrip ==
  \A k \in 1..Len(reports) :
    IsDestructuring(reports[k]) =>
      LET leaves == Leaves(NodeAt(file, reports[k].node).id, <<>>)
          texts == GeneratedTexts(reports[k])
      IN \A i \in 1..Len(leaves) :
           LET value == leaves[i].prop.value
               t == texts[i]
           IN /\ t[1] \in Kinds
              /\ SubSeq(t, 2, 6) = <<" ", t[3], " ", "=", " ">>
              /\ IF value.type = "AssignmentPattern" /\ value.left.type = "Identifier"
                   THEN /\ t[3] = value.left.name
                        /\ AfterCall(t) = <<")", " ", "||", " ">> \o GetText(value.right) \o <<";">>
                        /\ ~Occurs(GetText(value.right), ReturnedText(t))
                   ELSE AfterCall(t) = <<")", ";">>

\* the leaves jobs: jobsList = [] and totalCount = 0 rewritten in one diagnostic, and a leaf
\* without default in another file
DefaultWitness ==
  \E k \in 1..Len(reports) :
    /\ IsDestructuring(reports[k])
    /\ Len(reports[k].fix) = 2
    /\ AfterCall(GeneratedTexts(reports[k])[1]) = <<")", " ", "||", " ", "[", "]", ";">>
    /\ AfterCall(GeneratedTexts(reports[k])[2]) = <<")", " ", "||", " ", "0", ";">>
    /\ GeneratedTexts(reports[k])[1][3] = "jobsList"

\* C2 (fallback): when the selector returns <param>.<path> OP <fallback>, OP being || or ??,
\* every generated selector returns <param>.<path>.<field> OP <fallback>.
FallbackPreserved ==
  \A k \in 1..Len(reports) :
    LET node == NodeAt(file, reports[k].node)
        e == ReturnedExpression(SelectorCallOf(reports[k]).arguments[1])
        texts == GeneratedTexts(reports[k])
        fields == IF IsDestructuring(reports[k])
                    THEN [i \in 1..Len(texts) |-> Leaves(node.id, <<>>)[i].keys]
                    ELSE <<<<node.init.property.name>>>>
    IN (e.type = "LogicalExpression" /\ e.left.type = "MemberExpression") =>
         \A i \in 1..Len(texts) :
           ReturnedText(texts[i])
             = GetText(e.left) \o <<".">> \o JoinDot(fields[i])
               \o <<" ", e.operator, " ">> \o GetText(e.right)

\* the declaring keyword of the flagged declaration and of the declaration holding the selector
FlaggedKind(r) == ParentAt(file, r.node).kind
SelectorKind(r) == SelectorStatementOf(r).kind

HasNamedParameter(fn) == Len(fn.params) > 0 /\ fn.params[1].type = "Identifier"

\* the declarators visited so far in the pass, as indices into Declarators(file)
Visited == IF phase = "visit" THEN 1..(pos - 1) ELSE {}

\* a plain property access obj.p on a variable bound to a recognized selector call
IsSelectorAccess(at) ==
  LET node == NodeAt(file, at)
  IN /\ node.id.type # "ObjectPattern"
     /\ node.init.type = "MemberExpression"
     /\ node.init.object.type = "Identifier"
     /\ LET def == FindVariable(file, at, node.init.object.name)
        IN /\ def # <<>>
           /\ NodeAt(file, def).init.type = "CallExpression"
           /\ isSelectorFunction(NodeAt(file, def).init)
           /\ HasNamedParameter(NodeAt(file, def).init.arguments[1])

AccessKey(at) == <<NodeAt(file, at).init.object.name, NodeAt(file, at).init.property.name>>

ReportsAt(at) == { k \in 1..Len(reports) : reports[k].node = at }

\* C6 (dedup): among the property accesses on selector-bound variables visited in a file, the
\* first declarator of each pairing obj.p has exactly one diagnostic, with its fix, and marks
\* the pairing; every later declarator of a marked pairing has none.
DedupOncePerKey ==
  \A i \in Visited :
    LET ds == Declarators(file)
    IN IsSelectorAccess(ds[i]) =>
         /\ keyOf(AccessKey(ds[i])[1], AccessKey(ds[i])[2]) \in reportedVariables
         /\ IF \E j \in 1..(i - 1) :
                 IsSelectorAccess(ds[j]) /\ AccessKey(ds[j]) = AccessKey(ds[i])
              THEN ReportsAt(ds[i]) = {}
              ELSE /\ Cardinality(ReportsAt(ds[i])) = 1
                   /\ \A k \in ReportsAt(ds[i]) : Len(reports[k].fix) = 1

\* two accesses of the same pairing and one of another, all visited: two diagnostics
DedupWitness ==
  /\ TraversalDone
  /\ pass = 1
  /\ LET ds == Declarators(file)
     IN \E i, j \in 1..Len(ds) :
          /\ i < j
          /\ IsSelectorAccess(ds[i]) /\ IsSelectorAccess(ds[j])
          /\ AccessKey(ds[i]) = AccessKey(ds[j])
          /\ Cardinality(ReportsAt(ds[i])) = 1
          /\ ReportsAt(ds[j]) = {}

\* callee names that do not have the shape of a selector name
NonSelectorNames == {"someOtherFunction"}

\* the variable a declarator destructures or reads a property of, NoName when it does neither
SourceVariable(node) ==
  IF node.init.type = "Identifier" THEN node.init.name
  ELSE IF node.init.type = "MemberExpression" /\ node.init.object.type = "Identifier"
    THEN node.init.object.name
  ELSE NoName

\* a declarator that reads from a variable bound to no call or to a call of another function
ReadsNonSelector(at) ==
  LET v == SourceVariable(NodeAt(file, at))
      def == FindVariable(file, at, v)
  IN /\ v # NoName
     /\ \/ def = <<>>
        \/ NodeAt(file, def).init.type # "CallExpression"
        \/ NodeAt(file, def).init.callee.name \in NonSelectorNames

\* C7 (negative control): destructuring from, or reading a property of, a variable that is not
\* bound to a call, or is bound to a call whose callee name does not match, gives no diagnostic.
NegativeControl ==
  \A i \in 1..Len(Declarators(file)) :
    ReadsNonSelector(Declarators(file)[i]) => ReportsAt(Declarators(file)[i]) = {}

\* a file binding obj to someOtherFunction(...) and reading obj.foo, linted to the end
NegativeControlWitness ==
  /\ TraversalDone
  /\ pass = 1
  /\ \E i \in 1..Len(Declarators(file)) :
       LET at == Declarators(file)[i]
       IN /\ ReadsNonSelector(at)
          /\ NodeAt(file, at).init.type = "MemberExpression"
          /\ NodeAt(file, FindVariable(file, at, "obj")).init.type = "CallExpression"
  /\ reports = <<>>

\* C8 (idempotence): linting the file with the fixes applied gives no diagnostic.
RelintIsClean == pass > 1 => reports = <<>>

\* C9 (fix present): every diagnostic has at least one text edit.
EveryDiagnosticHasEdit == \A k \in 1..Len(reports) : Len(reports[k].fix) > 0

\* C10 (parameter header): in the arrow form the parameter is in parentheses exactly when the
\* original arrow's parameter was, or a type annotation is present; an annotation is never
\* written without parentheses.
ParameterHeaderKept ==
  \A k \in 1..Len(reports) :
    LET fn == SelectorCallOf(reports[k]).arguments[1]
        texts == GeneratedTexts(reports[k])
    IN \A i \in 1..Len(texts) :
         IsArrowForm(texts[i]) =>
           LET h == HeaderText(texts[i])
               wrapped == h[1] = "(" /\ h[Len(h)] = ")"
           IN /\ fn.type = "ArrowFunctionExpression" =>
                   (wrapped <=> (fn.parenthesized \/ HasField(fn.params[1], "typeAnnotation")))
              /\ ":" \in Range(h) => wrapped

\* C11 (object literal): when the selector returns an object literal and a destructured key k
\* is a property of the literal, the selector generated for k returns the source text of the
\* literal's value for k.
ObjectLiteralValueReturned ==
  \A k \in 1..Len(reports) :
    IsDestructuring(reports[k]) =>
      LET node == NodeAt(file, reports[k].node)
          e == ReturnedExpression(node.init.arguments[1])
          leaves == Leaves(node.id, <<>>)
          texts == GeneratedTexts(reports[k])
      IN e.type = "ObjectExpression" =>
           \A i \in 1..Len(texts) : \A j \in 1..Len(e.properties) :
             (Len(leaves[i].keys) = 1 /\ leaves[i].keys[1] = e.properties[j].key.name) =>
               ReturnedText(texts[i]) = GetText(e.properties[j].value)

\* a destructuring declarator whose initializer is a variable bound to a recognized selector call
DestructuresSelectorVariable(at) ==
  LET node == NodeAt(file, at)
  IN /\ node.id.type = "ObjectPattern"
     /\ node.init.type = "Identifier"
     /\ LET def == FindVariable(file, at, node.init.name)
        IN /\ def # <<>>
           /\ NodeAt(file, def).init.type = "CallExpression"
           /\ isSelectorFunction(NodeAt(file, def).init)
           /\ HasNamedParameter(NodeAt(file, def).init.arguments[1])

\* C12 (destructuring from a variable): every destructuring declaration whose initializer is a
\* variable bound to a recognized selector call has one diagnostic, whose fix rewrites it into
\* granular selector declarations.
VariableDestructuringReported ==
  \A i \in Visited :
    LET at == Declarators(file)[i]
    IN DestructuresSelectorVariable(at) =>
         /\ Cardinality(ReportsAt(at)) = 1
         /\ \A k \in ReportsAt(at) : Len(reports[k].fix) > 0

\* a file whose first statement destructures one key out of a recognized selector call and
\* whose later statements read properties of the destructured name
IsCoordinated(f) ==
  LET first == f[1].declarations[1]
  IN /\ Len(f) > 1
     /\ first.id.type = "ObjectPattern"
     /\ first.init.type = "CallExpression"
     /\ isSelectorFunction(first.init)
     /\ HasNamedParameter(first.init.arguments[1])
     /\ \A s \in 2..Len(f) :
          /\ f[s].declarations[1].init.type = "MemberExpression"
          /\ f[s].declarations[1].init.object.name \in BoundNames(first.id)

\* the text of the expression the selector of a rewritten declaration returns, <<>> when the
\* declaration is not bound to a call of a function
SelectorReturns(statement) ==
  LET init == statement.declarations[1].init
  IN IF statement.type = "VariableDeclaration" /\ init.type = "CallExpression"
          /\ Len(init.arguments) > 0 /\ HasField(init.arguments[1], "body")
       THEN GetText(ReturnedExpression(init.arguments[1]))
       ELSE <<>>

\* C13 (coordinated transformation): a name destructured from a selector call and then read
\* through plain property accesses gives exactly one diagnostic; with the fixes applied the
\* destructuring declaration is gone and every access is a selector returning
\* <param>.<basePath>.<key>.<property>.
CoordinatedTransformation ==
  (TraversalDone /\ pass = 1 /\ IsCoordinated(file)) =>
    LET first == file[1].declarations[1]
        fn == first.init.arguments[1]
        param == fn.params[1].name
        key == Leaves(first.id, <<>>)[1].keys[1]
        fixed == FixedFile(file, reports)
    IN /\ Len(reports) = 1
       /\ \A s \in 1..Len(fixed) :
            fixed[s].type = "VariableDeclaration" /\ fixed[s].declarations[1].id.type # "ObjectPattern"
       /\ \A s \in 2..Len(file) :
            \E t \in 1..Len(fixed) :
              /\ fixed[t].declarations[1].id = file[s].declarations[1].id
              /\ SelectorReturns(fixed[t])
                   = <<param, ".">>
                     \o PathText(extractBasePath(fn, param),
                                 <<key, file[s].declarations[1].init.property.name>>)

\* the callee names of the input files a configured pattern matches
NamesMatching(pattern) ==
  CASE pattern = "use.*Selector.*" ->
         { n \in CalleeNames \cup {"reuseSelector", "useselector", "SelectorOfuse", "selectUser"} :
             TestSelectorName(n) }
    [] pattern = "select.*" -> {"selectUser", "useselector"}
    [] pattern = "useApp.*" -> {"useAppSelector"}
    [] OTHER -> {}

\* whether a callee name qualifies under the options: some include pattern matches it (the
\* default being use.*Selector.*) and no exclude pattern does
Qualifies(opts, name) ==
  LET include == IF opts = <<>> THEN {"use.*Selector.*"} ELSE opts[1].include
      exclude == IF opts = <<>> THEN {} ELSE opts[1].exclude
  IN /\ \E p \in include : name \in NamesMatching(p)
     /\ \A p \in exclude : name \notin NamesMatching(p)

\* a declarator that destructures at least one leaf out of a call of a bare name with a
\* function of at least one parameter as first argument
DestructuresNamedCall(at) ==
  LET node == NodeAt(file, at)
  IN /\ node.id.type = "ObjectPattern"
     /\ Len(Leaves(node.id, <<>>)) > 0
     /\ node.init.type = "CallExpression"
     /\ node.init.callee.type = "Identifier"
     /\ Len(node.init.arguments) > 0
     /\ node.init.arguments[1].type \in {"ArrowFunctionExpression", "FunctionExpression"}
     /\ HasNamedParameter(node.init.arguments[1])

\* for the declarators linted so far: reported exactly when the callee name qualifies
NamesDecideWhereLinted ==
  \A i \in Visited :
    LET at == Declarators(file)[i]
    IN DestructuresNamedCall(at) =>
         (ReportsAt(at) # {} <=> Qualifies(options, NodeAt(file, at).init.callee.name))

\* C14 (configured names): under every configuration the file is linted, and a call is
\* treated as a selector call exactly when its callee name matches an include pattern and no
\* exclude pattern.
ConfiguredNamesDecide ==
  /\ phase # "configError"
  /\ NamesDecideWhereLinted

\* whether the diagnostic at a place rewrites x = obj.p into a declaration of x whose selector
\* returns <param>.<basePath>.p, or <param>.p when the base path is empty
RewritesAccess(at) ==
  \A k \in ReportsAt(at) :
    LET node == NodeAt(file, at)
        fn == SelectorCallOf(reports[k]).arguments[1]
        param == fn.params[1].name
        t == GeneratedTexts(reports[k])[1]
    IN /\ Len(reports[k].fix) = 1
       /\ t[3] = node.id.name
       /\ ReturnedText(t)
            = <<param, ".">> \o PathText(extractBasePath(fn, param), <<node.init.property.name>>)

NamesStartingWithUse == {"useSelector", "useAppSelector"}
NamesContainingUse == {"useSelector", "useAppSelector", "reuseSelector"}

\* a call of a bare name out of a set, with a function as first argument
HasSelectorShape(call, names) ==
  /\ call.callee.type = "Identifier"
  /\ call.callee.name \in names
  /\ Len(call.arguments) > 0
  /\ call.arguments[1].type \in {"ArrowFunctionExpression", "FunctionExpression"}

\* the calls the declarators linted so far are bound to
CallsLinted ==
  { NodeAt(file, Declarators(file)[i]).init : i \in Visited }
    \cap { c \in { NodeAt(file, Declarators(file)[i]).init : i \in 1..Len(Declarators(file)) } :
             c.type = "CallExpression" }

LocalNameOf(leaf) ==
  LET value == leaf.prop.value
  IN IF value.type = "Identifier" THEN value.name
     ELSE IF value.type = "AssignmentPattern" /\ value.left.type = "Identifier"
       THEN value.left.name
     ELSE leaf.prop.key.name

\* the names the generated declarations of a diagnostic declare, in the order of its edits
DeclaredNames(r) == [i \in 1..Len(r.fix) |-> GeneratedTexts(r)[i][3]]

\* C17 (output order): the declarations generated for a destructuring pattern are in the
\* left-to-right order of the pattern's leaves, the leaves of a nested pattern standing, depth
\* first, where their parent key stands.
OutputOrder ==
  \A k \in 1..Len(reports) :
    IsDestructuring(reports[k]) =>
      LET leaves == Leaves(NodeAt(file, reports[k].node).id, <<>>)
      IN DeclaredNames(reports[k]) = [i \in 1..Len(leaves) |-> LocalNameOf(leaves[i])]

\* { user: { name, email }, settings } rewritten as name, email, settings
OutputOrderWitness ==
  \E k \in 1..Len(reports) :
    /\ IsDestructuring(reports[k])
    /\ Len(Leaves(NodeAt(file, reports[k].node).id, <<>>)) = 3
    /\ Len(Leaves(NodeAt(file, reports[k].node).id, <<>>)[1].keys) = 2
    /\ DeclaredNames(reports[k]) = <<"name", "email", "settings">>

\* the number of line breaks in a text
LineBreaks(text) == Cardinality({ i \in 1..Len(text) : text[i] = "\n" })

\* C18 (fix stitching): a flagged destructuring declaration of n >= 1 leaves has exactly one
\* diagnostic; its fix is one replacement of the declaration statement by the first generated
\* declaration and n - 1 insertions after that statement, each a line break and the next
\* generated declaration, so that the n declarations stand one per line in generation order.
FixStitching ==
  \A k \in 1..Len(reports) :
    LET r == reports[k]
        node == NodeAt(file, r.node)
        n == Len(Leaves(node.id, <<>>))
    IN (IsDestructuring(r) /\ n >= 1) =>
         LET generated == processObjectPattern(node.id, selectorInfoOf(node, ParentAt(file, r.node)), <<>>)
         IN /\ Cardinality(ReportsAt(r.node)) = 1
            /\ Len(r.fix) = n
            /\ r.fix[1] = [op |-> "replaceText", target |-> r.node[1], text |-> generated[1].text]
            /\ \A i \in 2..n :
                 r.fix[i] = [op |-> "insertTextAfter", target |-> r.node[1],
                             text |-> <<"\n">> \o generated[i].text]
            /\ \A i \in 1..n : LineBreaks(generated[i].text) = 0
            /\ LineBreaks(mergedText(r.fix)) = n - 1

\* a pattern of three leaves: one replacement and two insertions, three lines
FixStitchingWitness ==
  \E k \in 1..Len(reports) :
    /\ IsDestructuring(reports[k])
    /\ Len(reports[k].fix) = 3
    /\ reports[k].fix[1].op = "replaceText"
    /\ reports[k].fix[2].op = "insertTextAfter"
    /\ reports[k].fix[3].op = "insertTextAfter"
    /\ LineBreaks(mergedText(reports[k].fix)) = 2

\* the field paths a diagnostic's generated selectors are for, one per generated declaration
FieldsOf(r) ==
  IF IsDestructuring(r)
    THEN [i \in 1..Len(r.fix) |-> Leaves(NodeAt(file, r.node).id, <<>>)[i].keys]
    ELSE <<<<NodeAt(file, r.node).init.property.name>>>>

\* whether every selector generated for a diagnostic returns a top-level path <param>.<fields>
TopLevelPaths(r) ==
  \A i \in 1..Len(r.fix) :
    ReturnedText(GeneratedTexts(r)[i])
      = <<SelectorCallOf(r).arguments[1].params[1].name, ".">> \o JoinDot(FieldsOf(r)[i])

\* C19 (block bodies): a base path is taken from a block only when the block is exactly one
\* return statement; for every other block the base path is empty and the generated paths
\* are top-level.
BlockBasePathOnlyForSingleReturn ==
  \A k \in 1..Len(reports) :
    LET body == SelectorCallOf(reports[k]).arguments[1].body
    IN (/\ body.type = "BlockStatement"
        /\ ~(Len(body.body) = 1 /\ body.body[1].type = "ReturnStatement"))
         => TopLevelPaths(reports[k])

\* C20 (other returned expressions): when the returned expression is no field access, no ||
\* or ?? with a field access on the left and no object literal, the base path is empty in
\* expression bodies and in block bodies alike, and the generated paths are top-level.
UnrecognizedBodyEmptyBase ==
  \A k \in 1..Len(reports) :
    LET e == ReturnedExpression(SelectorCallOf(reports[k]).arguments[1])
    IN (/\ e.type \notin {"MemberExpression", "ObjectExpression", "None"}
        /\ ~(e.type = "LogicalExpression" /\ e.left.type = "MemberExpression"))
         => TopLevelPaths(reports[k])

\* whether an expression is a dotted chain param.a.b... rooted at a parameter
RECURSIVE IsRootedChain(_, _)
IsRootedChain(e, param) ==
  IF e.type = "Identifier" THEN e.name = param
  ELSE /\ e.type = "MemberExpression"
       /\ ~e.computed
       /\ IsRootedChain(e.object, param)

\* C21 (rootedness): a returned member expression gives a base path only when it is a plain
\* dotted chain rooted at the selector's parameter, the base path being the chain without the
\* parameter and its dot; a chain rooted at another identifier and a computed access on the
\* parameter give none, and the generated paths are top-level.
Rootedness ==
  \A k \in 1..Len(reports) :
    LET fn == SelectorCallOf(reports[k]).arguments[1]
        e == ReturnedExpression(fn)
    IN e.type = "MemberExpression" =>
         IF IsRootedChain(e, fn.params[1].name)
           THEN \A i \in 1..Len(reports[k].fix) :
                  ReturnedText(GeneratedTexts(reports[k])[i])
                    = GetText(e) \o <<".">> \o JoinDot(FieldsOf(reports[k])[i])
           ELSE TopLevelPaths(reports[k])

\* the selector call a declarator reads from, directly or through the variable it reads; a
\* record of type "None" when there is none
CallReadAt(at) ==
  LET node == NodeAt(file, at)
      v == SourceVariable(node)
      def == FindVariable(file, at, v)
  IN IF node.init.type = "CallExpression" THEN node.init
     ELSE IF v # NoName /\ def # <<>> /\ NodeAt(file, def).init.type = "CallExpression"
       THEN NodeAt(file, def).init
     ELSE [type |-> "None"]

\* a declarator reading from a recognized selector call whose function has no parameter or a
\* first parameter that is no plain identifier
ReadsUnnamedSelector(at) ==
  LET call == CallReadAt(at)
  IN /\ call.type = "CallExpression"
     /\ isSelectorFunction(call)
     /\ ~HasNamedParameter(call.arguments[1])

\* C22 (silent abort): when no parameter name can be determined, because the selector function
\* has no parameter or its first parameter is no plain identifier, neither listener reports
\* and the registry is left as it was.
SilentAbort ==
  \A i \in Visited :
    LET at == Declarators(file)[i]
        node == NodeAt(file, at)
    IN ReadsUnnamedSelector(at) =>
         /\ ReportsAt(at) = {}
         /\ node.init.type = "MemberExpression" =>
              keyOf(node.init.object.name, node.init.property.name) \notin reportedVariables

\* obj bound to a selector call of a function without parameters and a property of obj read,
\* linted to the end with no diagnostic and an empty registry
SilentAbortWitness ==
  /\ TraversalDone
  /\ pass = 1
  /\ Len(file) = 2
  /\ ReadsUnnamedSelector(<<1, 1>>)
  /\ Len(NodeAt(file, <<1, 1>>).init.arguments[1].params) = 0
  /\ NodeAt(file, <<2, 1>>).init.type = "MemberExpression"
  /\ ReadsUnnamedSelector(<<2, 1>>)
  /\ reports = <<>>
  /\ reportedVariables = {}

\* the diagnostics of a file linted by a rule instance that has processed nothing before: both
\* listeners on every declarator in traversal order, from an empty registry
LintedAlone(f) ==
  LET ds == Declarators(f)
      after[i \in 0..Len(ds)] ==
        IF i = 0 THEN [reports |-> <<>>, registry |-> {}]
        ELSE LET out == accessOutcome(f, ds[i], after[i - 1].registry)
             IN [reports |-> after[i - 1].reports \o out.reports
                             \o (IF NodeAt(f, ds[i]).id.type = "ObjectPattern"
                                   THEN destructuringReports(f, ds[i]) ELSE <<>>),
                 registry |-> after[i - 1].registry \cup out.marks]
  IN after[Len(ds)].reports

\* C23 (registry life cycle): a step either keeps every marked key marked or is the Program
\* listener emptying the registry; the traversal of a file starts from the empty registry; and
\* the diagnostics of a file are those of the file linted alone, whatever was linted before.
RegistryLifeCycle ==
  /\ [][\/ reportedVariables \subseteq reportedVariables'
         \/ (phase = "start" /\ phase' = "visit" /\ reportedVariables' = {})]_vars
  /\ []((phase = "visit" /\ pos = 1 /\ handler = "access") => reportedVariables = {})
  /\ [](TraversalDone => reports = LintedAlone(file))

\* a second file linted by the same rule instance after a file that left keys marked: the
\* traversal is finished with diagnostics
RegistryLifeCycleWitness ==
  /\ pass = 2
  /\ TraversalDone
  /\ firstReports # <<>>
  /\ reports # <<>>
  /\ reportedVariables # {}

\* C24 (binding completeness): the names the generated declarations of a flagged destructuring
\* declare are the identifiers the pattern binds, each declared once; rest elements, array
\* patterns and nested patterns with a default included.
BindingComplete ==
  \A k \in 1..Len(reports) :
    IsDestructuring(reports[k]) =>
      LET bound == BoundNames(NodeAt(file, reports[k].node).id)
      IN /\ Range(DeclaredNames(reports[k])) = bound
         /\ Len(reports[k].fix) = Cardinality(bound)

\* C26 (keyword preservation): every generated declaration starts with the declaration keyword of
\* the statement it replaces, in both modes and both dialects.
KeywordPreserved ==
  \A k \in 1..Len(reports) :
    \A i \in 1..Len(reports[k].fix) :
      GeneratedTexts(reports[k])[i][1] = FlaggedKind(reports[k])

\* C25 (sibling declarators): when a statement has a flagged declarator whose fix is applied, every
\* other declarator of the statement is still declared, with its initializer, in the fixed file.
SiblingsPreserved ==
  TraversalDone =>
    \A s \in 1..Len(file) :
      FixFor(reports, s) # 0 =>
        \A d \in 1..Len(file[s].declarations) :
          ReportsAt(<<s, d>>) = {} =>
            \E t \in 1..Len(FixedFile(file, reports)) :
              /\ FixedFile(file, reports)[t] # SyntaxError
              /\ \E e \in 1..Len(FixedFile(file, reports)[t].declarations) :
                   FixedFile(file, reports)[t].declarations[e] = file[s].declarations[d]

\* C27 (parameter-name independence): for a selector returning a chain <param>.a.b rooted at its
\* parameter, whatever the parameter is called, every generated selector returns
\* <param>.a.b.<field>.
ParameterNameIndependent ==
  \A k \in 1..Len(reports) :
    LET fn == SelectorCallOf(reports[k]).arguments[1]
        e == ReturnedExpression(fn)
    IN (e.type = "MemberExpression" /\ IsRootedChain(e, fn.params[1].name)) =>
         \A i \in 1..Len(reports[k].fix) :
           ReturnedText(GeneratedTexts(reports[k])[i])
             = GetText(e) \o <<".">> \o JoinDot(FieldsOf(reports[k])[i])

\* the variable an access reads a property of, as the place of its definition, with the property
AccessedVariable(at) ==
  <<FindVariable(file, at, NodeAt(file, at).init.object.name),
    NodeAt(file, at).init.property.name>>

\* C28 (dedup per variable): a property access on a selector-bound variable is left without a
\* diagnostic only when an earlier declarator read the same property of the same variable; the
\* first access to each variable, also to one sharing its name with a variable of another
\* function, has one diagnostic with its fix.
DedupPerVariable ==
  \A i \in Visited :
    LET ds == Declarators(file)
    IN (/\ IsSelectorAccess(ds[i])
        /\ ~\E j \in 1..(i - 1) :
              IsSelectorAccess(ds[j]) /\ AccessedVariable(ds[j]) = AccessedVariable(ds[i]))
         => /\ Cardinality(ReportsAt(ds[i])) = 1
            /\ \A k \in ReportsAt(ds[i]) : Len(reports[k].fix) = 1

\* C29 (computed accesses): no declaration generated for a declarator whose initializer is a
\* computed access obj[key] on a selector-bound variable returns the static path
\* <param>.<basePath>.key; only accesses obj.p that are not computed are rewritten so.
ComputedAccessNotRewritten ==
  \A k \in 1..Len(reports) :
    LET node == NodeAt(file, reports[k].node)
        fn == SelectorCallOf(reports[k]).arguments[1]
        param == fn.params[1].name
    IN (node.init.type = "MemberExpression" /\ node.init.computed) =>
         \A i \in 1..Len(reports[k].fix) :
           ReturnedText(GeneratedTexts(reports[k])[i])
             # <<param, ".">> \o PathText(extractBasePath(fn, param), <<node.init.property.name>>)

\* C30 (declared name in access-chain mode): the declarations generated for a declarator that
\* reads a property declare the identifiers the declarator binds, all of them and no other name.
AccessDeclaresRealName ==
  \A k \in 1..Len(reports) :
    ~IsDestructuring(reports[k]) =>
      Range(DeclaredNames(reports[k])) = BoundNames(NodeAt(file, reports[k].node).id)

====
